---- MODULE Spec2Model ----
(***************************************************************************)
(* A model of the fixed-size engines of the linear-algebra library         *)
(* (fixed_size_engines.hpp), of the traits chooser (arithmetic_traits.hpp) *)
(* and of the matrix facade (matrix.hpp).                                  *)
(*                                                                         *)
(* An engine object is a record: its class, its compile-time extents and   *)
(* its storage ma_elems, a function over the C++ indices 0..n-1.           *)
(***************************************************************************)
EXTENDS Integers, Sequences, FiniteSets, Bags, TLC

\* ------------------------------------------------------------------ bounds
\* Engines with at most MaxCells storage slots are instantiated:
\* fs_vector_engine<T,N> with N <= MaxCells, fs_matrix_engine<T,R,C> with
\* R*C <= MaxCells.
MaxCells == 4
\* Initializer lists hold at most MaxCells + MaxSurplus elements.
MaxSurplus == 1

\* The element type T: a two-valued arithmetic type, static_cast<T>(0) = 0.
Values == {0, 1}
Lists  == UNION { [1..k -> Values] : k \in 0 .. MaxCells + MaxSurplus }

VectorExtents == 1 .. MaxCells
\* Traits types are numbered 1..MaxTraits; Void is the type void.
MaxTraits == 4

\* Dynamic engines have row and column sizes and capacities in 0..MaxDyn.
MaxDyn == 2

MatrixExtents == { rc \in (1 .. MaxCells) \X (1 .. MaxCells) : rc[1] * rc[2] <= MaxCells }

\* ---------------------------------------------------------------- helpers
\* std::min as used by the list constructors
min(x, y) == IF y < x THEN y ELSE x

\* static_cast<T>(u) for a list element type U whose values T represents
static_cast_T(u) == u

\* T ma_elems[n] value-initialised by the member initialiser ma_elems()
value_init(n) == [k \in 0 .. n-1 |-> 0]

\* ma_elems[i] = v.  A write past the array lands in the memory behind it,
\* which then shows as a slot outside 0..n-1.
put(elems, i, v) ==
    [k \in DOMAIN elems \cup {i} |-> IF k = i THEN v ELSE elems[k]]

\* for (auto& elem : ma_elems) elem = static_cast<T>(0);
RECURSIVE zero_all(_, _, _)
zero_all(elems, k, n) ==
    IF k < n THEN zero_all(put(elems, k, static_cast_T(0)), k+1, n)
             ELSE elems

\* for (i = 0; i < count; ++i, ++iter) ma_elems[i] = static_cast<T>(*iter);
RECURSIVE copy_list(_, _, _, _)
copy_list(elems, list, i, count) ==
    IF i < count
      THEN copy_list(put(elems, i, static_cast_T(list[i+1])), list, i+1, count)
      ELSE elems

\* if (count < N) for (i = count; i < N; ++i) ma_elems[i] = static_cast<T>(0);
RECURSIVE zero_fill(_, _, _)
zero_fill(elems, i, n) ==
    IF i < n THEN zero_fill(put(elems, i, static_cast_T(0)), i+1, n)
             ELSE elems

\* ------------------------------------------------------- fs_vector_engine
\* A default constructor that leaves the storage as it found it.
fs_vector_engine_default_raw(N, raw) ==
    [cls |-> "fs_vector_engine", N |-> N, ma_elems |-> raw]

\* fs_vector_engine(): ma_elems has no initialiser, so the loop starts from
\* whatever the storage held (raw).
fs_vector_engine_default(N, raw) ==
    [cls |-> "fs_vector_engine", N |-> N, ma_elems |-> zero_all(raw, 0, N)]

\* A list constructor that copies the whole list, whatever N is.
fs_vector_engine_list_nomin(N, list) ==
    [cls |-> "fs_vector_engine", N |-> N,
     ma_elems |-> copy_list(value_init(N), list, 0, Len(list))]

fs_vector_engine_list(N, list) ==
    LET count == min(N, Len(list))
        copied == copy_list(value_init(N), list, 0, count)
    IN  [cls |-> "fs_vector_engine", N |-> N,
         ma_elems |-> IF count < N THEN zero_fill(copied, count, N) ELSE copied]

\* operator()(i) const
vector_at(e, i) == e.ma_elems[i]

\* operator()(i) = v
vector_set(e, i, v) == [e EXCEPT !.ma_elems = put(@, i, v)]

vector_capacity(e) == e.N
vector_elements(e) == e.N
vector_size(e)     == e.N

\* ------------------------------------------------------- fs_matrix_engine
fs_matrix_engine_default(R, C) ==
    [cls |-> "fs_matrix_engine", R |-> R, C |-> C,
     ma_elems |-> zero_all(value_init(R*C), 0, R*C)]

\* A list constructor that lays the sequence out column by column.
fs_matrix_engine_list_column_major(R, C, list) ==
    LET total == R*C
        count == min(total, Len(list))
    IN  [cls |-> "fs_matrix_engine", R |-> R, C |-> C,
         ma_elems |-> [s \in 0 .. total - 1 |->
                          LET k == (s % C)*R + (s \div C)
                          IN  IF k < count THEN static_cast_T(list[k+1])
                                           ELSE static_cast_T(0)]]

\* fs_matrix_engine(initializer_list<U> list)
fs_matrix_engine_list(R, C, list) ==
    LET total == R*C
        count == min(total, Len(list))
        copied == copy_list(value_init(total), list, 0, count)
    IN  [cls |-> "fs_matrix_engine", R |-> R, C |-> C,
         ma_elems |-> IF count < total THEN zero_fill(copied, count, total) ELSE copied]

\* An element read that takes the storage as column-major.
matrix_at_column_major(e, i, j) == e.ma_elems[j*e.R + i]

\* operator()(i, j) const
matrix_at(e, i, j) == e.ma_elems[i*e.C + j]

\* A mutable access that strides by the number of rows.
matrix_set_row_stride(e, i, j, v) == [e EXCEPT !.ma_elems = put(@, i*e.R + j, v)]

\* operator()(i, j) = v
matrix_set(e, i, j, v) == [e EXCEPT !.ma_elems = put(@, i*e.C + j, v)]

\* A capacity() that reports the extents transposed.
capacity_transposed(e) == <<e.C, e.R>>

columns(e)         == e.C
rows(e)            == e.R
size(e)            == <<e.R, e.C>>
column_capacity(e) == e.C
row_capacity(e)    == e.R
capacity(e)        == <<e.R, e.C>>

\* template<class ET2> operator =(ET2 const& rhs): the two for loops.  dj and sj
\* are declared before the outer loop and are not reset by it.
RECURSIVE assign_inner(_, _, _, _, _, _)
assign_inner(dst, rhs, di, si, dj, sj) ==
    IF dj < columns(dst)
      THEN assign_inner(matrix_set(dst, di, dj, matrix_at(rhs, si, sj)),
                        rhs, di, si, dj+1, sj+1)
      ELSE [dst |-> dst, dj |-> dj, sj |-> sj]

RECURSIVE assign_outer(_, _, _, _, _, _)
assign_outer(dst, rhs, di, si, dj, sj) ==
    IF di < rows(dst)
      THEN LET r == assign_inner(dst, rhs, di, si, dj, sj)
           IN  assign_outer(r.dst, rhs, di+1, si+1, r.dj, r.sj)
      ELSE dst

\* A size check that compares the element counts, not the extents.
assign_count_mismatch(dst, rhs) == rhs.R * rhs.C # dst.R * dst.C

\* if (rhs.size() != size()) throw runtime_error("invalid size");
assign_size_mismatch(dst, rhs) == size(rhs) # size(dst)

\* The whole operator: [threw, dst]
fs_matrix_engine_assign(dst, rhs) ==
    IF assign_size_mismatch(dst, rhs)
      THEN [threw |-> TRUE,  dst |-> dst]
      ELSE [threw |-> FALSE, dst |-> assign_outer(dst, rhs, 0, 0, 0, 0)]

\* detail::la_swap(x, y): the new values of x and y
la_swap(x, y) == <<y, x>>

\* la_swap(ma_elems[p], ma_elems[q]) within one array
swap_slots(elems, p, q) ==
    LET s == la_swap(elems[p], elems[q])
    IN  [[elems EXCEPT ![p] = s[1]] EXCEPT ![q] = s[2]]

\* for (i = 0; i < n; ++i) la_swap(ma_elems[i], rhs.ma_elems[i]);
RECURSIVE swap_loop(_, _, _, _)
swap_loop(mine, theirs, i, n) ==
    IF i < n
      THEN LET s == la_swap(mine[i], theirs[i])
           IN  swap_loop([mine EXCEPT ![i] = s[1]], [theirs EXCEPT ![i] = s[2]], i+1, n)
      ELSE <<mine, theirs>>

\* fs_vector_engine::swap(rhs): store maps the object names to the objects,
\* this and rhs name the two operands (&rhs != this compares the names).
fs_vector_engine_swap(store, this, rhs) ==
    IF rhs # this
      THEN LET r == swap_loop(store[this].ma_elems, store[rhs].ma_elems, 0, store[this].N)
           IN  [store EXCEPT ![this].ma_elems = r[1], ![rhs].ma_elems = r[2]]
      ELSE store

\* fs_vector_engine::swap_elements(i, j)
swap_elements(e, i, j) == [e EXCEPT !.ma_elems = swap_slots(@, i, j)]

\* A swap whose loop stops after R slots.
fs_matrix_engine_swap_short(store, this, rhs) ==
    IF rhs # this
      THEN LET r == swap_loop(store[this].ma_elems, store[rhs].ma_elems, 0, store[this].R)
           IN  [store EXCEPT ![this].ma_elems = r[1], ![rhs].ma_elems = r[2]]
      ELSE store

\* fs_matrix_engine::swap(rhs)
fs_matrix_engine_swap(store, this, rhs) ==
    IF rhs # this
      THEN LET r == swap_loop(store[this].ma_elems, store[rhs].ma_elems, 0,
                              store[this].R * store[this].C)
           IN  [store EXCEPT ![this].ma_elems = r[1], ![rhs].ma_elems = r[2]]
      ELSE store

\* for (i = 0; i < R; ++i) la_swap(ma_elems[i*C + j1], ma_elems[i*C + j2]);
RECURSIVE swap_columns_loop(_, _, _, _, _, _)
swap_columns_loop(elems, R, C, j1, j2, i) ==
    IF i < R
      THEN swap_columns_loop(swap_slots(elems, i*C + j1, i*C + j2), R, C, j1, j2, i+1)
      ELSE elems

\* A swap_columns that copies column j2 over column j1 and keeps j2.
swap_columns_overwrite(e, j1, j2) ==
    IF j1 # j2
      THEN [e EXCEPT !.ma_elems =
              [s \in DOMAIN e.ma_elems |->
                  IF s % e.C = j1 THEN e.ma_elems[(s \div e.C)*e.C + j2]
                                  ELSE e.ma_elems[s]]]
      ELSE e

\* fs_matrix_engine::swap_columns(j1, j2)
swap_columns(e, j1, j2) ==
    IF j1 # j2
      THEN [e EXCEPT !.ma_elems = swap_columns_loop(@, e.R, e.C, j1, j2, 0)]
      ELSE e

\* for (j = 0; j < C; ++j) la_swap(ma_elems[i1*C + j], ma_elems[i2*C + j]);
RECURSIVE swap_rows_loop(_, _, _, _, _)
swap_rows_loop(elems, C, i1, i2, j) ==
    IF j < C
      THEN swap_rows_loop(swap_slots(elems, i1*C + j, i2*C + j), C, i1, i2, j+1)
      ELSE elems

\* A swap_rows whose loop starts at column 1.
swap_rows_from_one(e, i1, i2) ==
    IF i1 # i2
      THEN [e EXCEPT !.ma_elems = swap_rows_loop(@, e.C, i1, i2, 1)]
      ELSE e

\* fs_matrix_engine::swap_rows(i1, i2)
swap_rows(e, i1, i2) ==
    IF i1 # i2
      THEN [e EXCEPT !.ma_elems = swap_rows_loop(@, e.C, i1, i2, 0)]
      ELSE e

\* ------------------------------------------------------------ the machine
\* a:    the engine object under test.
\* last: the operation that produced the state: its name, its arguments, the
\*       objects it ran on as they were before it (pre) and as it left them
\*       (post).  pre and post map "a" to the engine under test and "b" to the
\*       second operand of swap, an engine of the same type that lives for the
\*       call only.
\* targs: the template arguments a's type was instantiated with.
\* view: the transpose view taken of a, if any.
\* chooser: an instantiation of non_void_traits_chooser and its outcome.
VARIABLES a, last, targs, view, chooser

vars == <<a, last, targs, view, chooser>>

NoView    == [cls |-> "none"]
NoChooser == [T1 |-> 0, T2 |-> 0, Dflt |-> 0, stage |-> "none",
              complete |-> FALSE, traits_type |-> 0, via |-> "none"]

\* What an operation on the engine leaves alone.
Frame == UNCHANGED <<targs, view, chooser>>

NoEngine == [cls |-> "none"]

\* The engines of a's type, with any contents (the second operand of swap).
SameTypeEngines(e) ==
    { [e EXCEPT !.ma_elems = f] : f \in [DOMAIN e.ma_elems -> Values] }

\* The engines of a foreign type ET2 (another element type, any extents) that an
\* fs_matrix_engine is assigned from.
ForeignEngines ==
    UNION { { [cls |-> "fs_matrix_engine", R |-> rc[1], C |-> rc[2], ma_elems |-> f] :
                f \in [0 .. rc[1]*rc[2] - 1 -> Values] } : rc \in MatrixExtents }

Op(name, pre, post, i, j, v, list, rhs, threw) ==
    [op |-> name, pre |-> pre, post |-> post, i |-> i, j |-> j, v |-> v,
     list |-> list, rhs |-> rhs, threw |-> threw]

Alone(e) == [a |-> e, b |-> NoEngine]

IsVector == a.cls = "fs_vector_engine"
IsMatrix == a.cls = "fs_matrix_engine"

\* fs_vector_engine<T,N> a;
InitVectorDefault ==
    \E n \in VectorExtents : \E raw \in [0 .. n-1 -> Values] :
        /\ targs = [N |-> n]
        /\ a = fs_vector_engine_default(n, raw)
        /\ last = Op("ctor_default", Alone(a), Alone(a), 0, 0, 0, <<>>, NoEngine, FALSE)

\* fs_vector_engine<T,N> a(list);
InitVectorList ==
    \E n \in VectorExtents : \E list \in Lists :
        /\ targs = [N |-> n]
        /\ a = fs_vector_engine_list(n, list)
        /\ last = Op("ctor_list", Alone(a), Alone(a), 0, 0, 0, list, NoEngine, FALSE)

\* fs_matrix_engine<T,R,C> a;
InitMatrixDefault ==
    \E rc \in MatrixExtents :
        /\ targs = [R |-> rc[1], C |-> rc[2]]
        /\ a = fs_matrix_engine_default(rc[1], rc[2])
        /\ last = Op("ctor_default", Alone(a), Alone(a), 0, 0, 0, <<>>, NoEngine, FALSE)

\* fs_matrix_engine<T,R,C> a(list);
InitMatrixList ==
    \E rc \in MatrixExtents : \E list \in Lists :
        /\ targs = [R |-> rc[1], C |-> rc[2]]
        /\ a = fs_matrix_engine_list(rc[1], rc[2], list)
        /\ last = Op("ctor_list", Alone(a), Alone(a), 0, 0, 0, list, NoEngine, FALSE)

Init ==
    /\ InitVectorDefault \/ InitVectorList \/ InitMatrixDefault \/ InitMatrixList
    /\ view = NoView
    /\ chooser = NoChooser

\* a(i) = v;
VectorWrite ==
    /\ Frame
    /\ IsVector
    /\ \E i \in 0 .. a.N - 1 : \E v \in Values :
          /\ a' = vector_set(a, i, v)
          /\ last' = Op("write", Alone(a), Alone(a'), i, 0, v, <<>>, NoEngine, FALSE)

\* { fs_vector_engine<T,N> b = ...;  a.swap(b); }
VectorSwap ==
    /\ Frame
    /\ IsVector
    /\ \E b \in SameTypeEngines(a) :
          LET pre  == [a |-> a, b |-> b]
              post == fs_vector_engine_swap(pre, "a", "b")
          IN  /\ a' = post["a"]
              /\ last' = Op("swap", pre, post, 0, 0, 0, <<>>, NoEngine, FALSE)

\* a.swap(a);
VectorSwapSelf ==
    /\ Frame
    /\ IsVector
    /\ LET pre  == Alone(a)
           post == fs_vector_engine_swap(pre, "a", "a")
       IN  /\ a' = post["a"]
           /\ last' = Op("swap_self", pre, post, 0, 0, 0, <<>>, NoEngine, FALSE)

\* a.swap_elements(i, j);
VectorSwapElements ==
    /\ Frame
    /\ IsVector
    /\ \E i, j \in 0 .. a.N - 1 :
          /\ a' = swap_elements(a, i, j)
          /\ last' = Op("swap_elements", Alone(a), Alone(a'), i, j, 0, <<>>, NoEngine, FALSE)

\* a(i, j) = v;
MatrixWrite ==
    /\ Frame
    /\ IsMatrix
    /\ \E i \in 0 .. a.R - 1 : \E j \in 0 .. a.C - 1 : \E v \in Values :
          /\ a' = matrix_set(a, i, j, v)
          /\ last' = Op("write", Alone(a), Alone(a'), i, j, v, <<>>, NoEngine, FALSE)

\* { fs_matrix_engine<T,R,C> b = ...;  a.swap(b); }
MatrixSwap ==
    /\ Frame
    /\ IsMatrix
    /\ \E b \in SameTypeEngines(a) :
          LET pre  == [a |-> a, b |-> b]
              post == fs_matrix_engine_swap(pre, "a", "b")
          IN  /\ a' = post["a"]
              /\ last' = Op("swap", pre, post, 0, 0, 0, <<>>, NoEngine, FALSE)

\* a.swap(a);
MatrixSwapSelf ==
    /\ Frame
    /\ IsMatrix
    /\ LET pre  == Alone(a)
           post == fs_matrix_engine_swap(pre, "a", "a")
       IN  /\ a' = post["a"]
           /\ last' = Op("swap_self", pre, post, 0, 0, 0, <<>>, NoEngine, FALSE)

\* a.swap_rows(i1, i2);
MatrixSwapRows ==
    /\ Frame
    /\ IsMatrix
    /\ \E i1, i2 \in 0 .. a.R - 1 :
          /\ a' = swap_rows(a, i1, i2)
          /\ last' = Op("swap_rows", Alone(a), Alone(a'), i1, i2, 0, <<>>, NoEngine, FALSE)

\* a.swap_columns(j1, j2);
MatrixSwapColumns ==
    /\ Frame
    /\ IsMatrix
    /\ \E j1, j2 \in 0 .. a.C - 1 :
          /\ a' = swap_columns(a, j1, j2)
          /\ last' = Op("swap_columns", Alone(a), Alone(a'), j1, j2, 0, <<>>, NoEngine, FALSE)

\* try { a = rhs; } catch (runtime_error const&) { }
MatrixAssign ==
    /\ Frame
    /\ IsMatrix
    /\ \E rhs \in ForeignEngines :
          LET r == fs_matrix_engine_assign(a, rhs)
          IN  /\ a' = r.dst
              /\ last' = Op("assign", Alone(a), Alone(a'), 0, 0, 0, <<>>, rhs, r.threw)

Next ==
    \/ VectorWrite
    \/ VectorSwap
    \/ VectorSwapSelf
    \/ VectorSwapElements
    \/ MatrixWrite
    \/ MatrixSwap
    \/ MatrixSwapSelf
    \/ MatrixSwapRows
    \/ MatrixSwapColumns
    \/ MatrixAssign

Spec == Init /\ [][Next]_vars

\* ------------------------------------------------ non_void_traits_chooser
Void == 0
TraitsTypes == 0 .. MaxTraits

\* The partial specialisations whose pattern matches <T1, T2, DEF>.
matching_specialisations(T1, T2, Dflt) ==
    { sp \in {"T1_void_DEF", "void_T2_DEF", "void_void_DEF"} :
        \/ sp = "T1_void_DEF"   /\ T2 = Void
        \/ sp = "void_T2_DEF"   /\ T1 = Void
        \/ sp = "void_void_DEF" /\ T1 = Void /\ T2 = Void }

\* A chooser whose primary template has a body that names T1.
non_void_traits_chooser_primary_defined(T1, T2, Dflt) ==
    LET m == matching_specialisations(T1, T2, Dflt)
    IN  IF "void_void_DEF" \in m
          THEN [complete |-> TRUE, traits_type |-> Dflt, via |-> "void_void_DEF"]
        ELSE IF "T1_void_DEF" \in m
          THEN [complete |-> TRUE, traits_type |-> T1, via |-> "T1_void_DEF"]
        ELSE IF "void_T2_DEF" \in m
          THEN [complete |-> TRUE, traits_type |-> T2, via |-> "void_T2_DEF"]
        ELSE [complete |-> TRUE, traits_type |-> T1, via |-> "primary"]

\* A chooser that takes the default whenever T2 is void.
non_void_traits_chooser_default_first(T1, T2, Dflt) ==
    LET m == matching_specialisations(T1, T2, Dflt)
    IN  IF "T1_void_DEF" \in m
          THEN [complete |-> TRUE, traits_type |-> Dflt, via |-> "void_void_DEF"]
        ELSE IF "void_T2_DEF" \in m
          THEN [complete |-> TRUE, traits_type |-> T2, via |-> "void_T2_DEF"]
        ELSE [complete |-> FALSE, traits_type |-> Void, via |-> "primary"]

\* non_void_traits_chooser<T1, T2, DEF>: the most specialised matching partial
\* specialisation is instantiated; <void, void, DEF> is more specialised than
\* the other two.  With none matching the primary template is chosen, which
\* is declared and never defined (complete = FALSE: no traits_type).
non_void_traits_chooser(T1, T2, Dflt) ==
    LET m == matching_specialisations(T1, T2, Dflt)
    IN  IF "void_void_DEF" \in m
          THEN [complete |-> TRUE, traits_type |-> Dflt, via |-> "void_void_DEF"]
        ELSE IF "T1_void_DEF" \in m
          THEN [complete |-> TRUE, traits_type |-> T1, via |-> "T1_void_DEF"]
        ELSE IF "void_T2_DEF" \in m
          THEN [complete |-> TRUE, traits_type |-> T2, via |-> "void_T2_DEF"]
        ELSE [complete |-> FALSE, traits_type |-> Void, via |-> "primary"]

IdleEngine ==
    /\ a = NoEngine
    /\ targs = [N |-> 0]
    /\ view = NoView
    /\ last = Op("none", Alone(NoEngine), Alone(NoEngine), 0, 0, 0, <<>>, NoEngine, FALSE)

\* non_void_traits_chooser<T1, T2, DEF> named, not yet instantiated
InitTraits ==
    /\ IdleEngine
    /\ \E T1, T2, Dflt \in TraitsTypes :
          chooser = [T1 |-> T1, T2 |-> T2, Dflt |-> Dflt, stage |-> "named",
                     complete |-> FALSE, traits_type |-> Void, via |-> "none"]

\* typename non_void_traits_chooser<T1, T2, DEF>::traits_type
ResolveTraits ==
    /\ chooser.stage = "named"
    /\ LET r == non_void_traits_chooser(chooser.T1, chooser.T2, chooser.Dflt)
       IN  chooser' = [chooser EXCEPT !.stage = "resolved", !.complete = r.complete,
                                      !.traits_type = r.traits_type, !.via = r.via]
    /\ UNCHANGED <<a, last, targs, view>>

NextTraits == ResolveTraits

SpecTraits == InitTraits /\ [][NextTraits]_vars

\* ------------------------------------------------------- transpose view
\* matrix_transpose_engine<ET>: holds a pointer to the engine it was made of
\* (other names that engine) and no elements of its own.
matrix_transpose_engine(other) == [cls |-> "matrix_transpose_engine", other |-> other]

\* *mp_other: the engine the view points to, as it is now
pointee(v) == IF v.other = "a" THEN a ELSE NoEngine

tr_rows(v)    == columns(pointee(v))
tr_columns(v) == rows(pointee(v))

\* matrix_transpose_engine::operator()(i, j)
tr_at(v, i, j) == matrix_at(pointee(v), j, i)

\* auto v = A.t();
TakeTranspose ==
    /\ IsMatrix
    /\ view' = matrix_transpose_engine("a")
    /\ last' = Op("t", Alone(a), Alone(a), 0, 0, 0, <<>>, NoEngine, FALSE)
    /\ UNCHANGED <<a, targs, chooser>>

InitView ==
    /\ InitMatrixDefault \/ InitMatrixList
    /\ view = NoView
    /\ chooser = NoChooser

NextView ==
    \/ TakeTranspose
    \/ MatrixWrite
    \/ MatrixSwapRows
    \/ MatrixSwapColumns

SpecView == InitView /\ [][NextView]_vars

\* ------------------------------------------------------- matrix facade
\* dr_matrix_engine: run-time sizes and capacities, capacity >= size.
max(x, y) == IF x < y THEN y ELSE x

DynSizes == 0 .. MaxDyn

dr_matrix_engine(r, c, rcap, ccap) ==
    [cls |-> "dr_matrix_engine", rows |-> r, cols |-> c,
     rowcap |-> max(rcap, r), colcap |-> max(ccap, c)]

dr_reserve(e, rcap, ccap) ==
    [e EXCEPT !.rowcap = max(@, rcap), !.colcap = max(@, ccap)]

dr_resize(e, r, c) ==
    [e EXCEPT !.rows = r, !.cols = c, !.rowcap = max(@, r), !.colcap = max(@, c)]

dr_resize_cap(e, r, c, rcap, ccap) ==
    [e EXCEPT !.rows = r, !.cols = c,
              !.rowcap = max(max(@, rcap), r), !.colcap = max(max(@, ccap), c)]

\* detail::is_resizable_engine_v<ET>
is_resizable_engine_v(cls) == cls = "dr_matrix_engine"

\* A predicate that reports every operand as resizable.
result_requires_resize_always(m) == TRUE

\* result_requires_resize(matrix<ET, OT> const&)
result_requires_resize(m) == is_resizable_engine_v(m.cls)

\* enable_if_resizable_t<ET, ET2>: the member exists when ET2 is ET and ET is
\* resizable.
enable_if_resizable(ET, ET2) == ET2 = ET /\ is_resizable_engine_v(ET)

\* A size accessor that forwards to the engine's capacity.
facade_size_from_capacity(m) ==
    IF m.cls = "dr_matrix_engine" THEN <<m.rowcap, m.colcap>> ELSE size(m)

\* matrix::rows / columns / row_capacity / column_capacity of the facade
facade_size(m) ==
    IF m.cls = "dr_matrix_engine" THEN <<m.rows, m.cols>> ELSE size(m)
facade_capacity(m) ==
    IF m.cls = "dr_matrix_engine" THEN <<m.rowcap, m.colcap>> ELSE capacity(m)

NoTargs == [N |-> 0]

\* matrix<fs_matrix_engine<T,R,C>, OT> m;
InitFacadeFixed ==
    /\ InitMatrixDefault
    /\ view = NoView
    /\ chooser = NoChooser

\* matrix<dr_matrix_engine<T,A>, OT> m;
InitFacadeDynamic ==
    /\ a = dr_matrix_engine(0, 0, 0, 0)
    /\ last = Op("ctor_default", Alone(a), Alone(a), 0, 0, 0, <<>>, NoEngine, FALSE)
    /\ targs = NoTargs /\ view = NoView /\ chooser = NoChooser

\* matrix<ET, OT> m(rows, cols);  matrix<ET, OT> m(size);
InitFacadeSized ==
    \E ET \in {"fs_matrix_engine", "dr_matrix_engine"} : \E r, c \in DynSizes :
        /\ enable_if_resizable(ET, ET)
        /\ a = dr_matrix_engine(r, c, r, c)
        /\ last = Op("ctor_sized", Alone(a), Alone(a), r, c, 0, <<>>, NoEngine, FALSE)
        /\ targs = NoTargs /\ view = NoView /\ chooser = NoChooser

\* matrix<ET, OT> m(rows, cols, rowcap, colcap);  matrix<ET, OT> m(size, cap);
InitFacadeSizedCap ==
    \E ET \in {"fs_matrix_engine", "dr_matrix_engine"} :
    \E r, c, rcap, ccap \in DynSizes :
        /\ enable_if_resizable(ET, ET)
        /\ a = dr_matrix_engine(r, c, rcap, ccap)
        /\ last = Op("ctor_sized", Alone(a), Alone(a), r, c, 0, <<rcap, ccap>>, NoEngine, FALSE)
        /\ targs = NoTargs /\ view = NoView /\ chooser = NoChooser

InitFacade ==
    InitFacadeFixed \/ InitFacadeDynamic \/ InitFacadeSized \/ InitFacadeSizedCap

\* m.reserve(rowcap, colcap);  m.reserve(cap);
FacadeReserve ==
    /\ Frame
    /\ enable_if_resizable(a.cls, a.cls)
    /\ \E rcap, ccap \in DynSizes :
          /\ a' = dr_reserve(a, rcap, ccap)
          /\ last' = Op("reserve", Alone(a), Alone(a'), 0, 0, 0, <<rcap, ccap>>, NoEngine, FALSE)

\* m.resize(rows, cols);  m.resize(size);
FacadeResize ==
    /\ Frame
    /\ enable_if_resizable(a.cls, a.cls)
    /\ \E r, c \in DynSizes :
          /\ a' = dr_resize(a, r, c)
          /\ last' = Op("resize", Alone(a), Alone(a'), r, c, 0, <<>>, NoEngine, FALSE)

\* m.resize(rows, cols, rowcap, colcap);  m.resize(size, cap);
FacadeResizeCap ==
    /\ Frame
    /\ enable_if_resizable(a.cls, a.cls)
    /\ \E r, c, rcap, ccap \in DynSizes :
          /\ a' = dr_resize_cap(a, r, c, rcap, ccap)
          /\ last' = Op("resize_cap", Alone(a), Alone(a'), r, c, 0, <<rcap, ccap>>, NoEngine, FALSE)

NextFacade ==
    \/ FacadeReserve
    \/ FacadeResize
    \/ FacadeResizeCap
    \/ MatrixWrite
    \/ MatrixSwapRows
    \/ MatrixSwapColumns
    \/ MatrixAssign

SpecFacade == InitFacade /\ [][NextFacade]_vars

\* ------------------------------------------------------------- properties
Slots(e) == DOMAIN e.ma_elems
RowsOf(e) == 0 .. e.R - 1
ColsOf(e) == 0 .. e.C - 1
IsVectorEngine(e) == e.cls = "fs_vector_engine"
IsMatrixEngine(e) == e.cls = "fs_matrix_engine"

\* C1: after an assignment from a foreign engine of equal size() that did not
\* throw, dest(i,j) = rhs(i,j) for every row i < R and every column j < C.
C1_AssignCopiesEveryElement ==
    (last.op = "assign" /\ <<last.rhs.R, last.rhs.C>> = <<a.R, a.C>>) =>
        /\ ~last.threw
        /\ \A i \in RowsOf(a) : \A j \in ColsOf(a) :
              matrix_at(a, i, j) = matrix_at(last.rhs, i, j)

\* C2: an assignment from a foreign engine whose (rows, columns) pair differs
\* from the destination's throws, and leaves every destination element as it
\* was before the call.
C2_MismatchThrowsAndKeepsDest ==
    (last.op = "assign" /\ <<last.rhs.R, last.rhs.C>> # <<last.pre["a"].R, last.pre["a"].C>>) =>
        /\ last.threw
        /\ Slots(a) = Slots(last.pre["a"])
        /\ \A i \in RowsOf(a) : \A j \in ColsOf(a) :
              matrix_at(a, i, j) = matrix_at(last.pre["a"], i, j)

\* C2 witness: a failed assignment between shapes of equal element count, the
\* source differing from the destination in its first element.
C2_Witness ==
    /\ last.op = "assign" /\ last.threw
    /\ last.rhs.R * last.rhs.C = a.R * a.C
    /\ last.rhs.R # a.R
    /\ a.R > 1
    /\ last.rhs.ma_elems[0] # a.ma_elems[0]

\* C3: a default-constructed engine holds N (resp. R*C) elements, all zero.
C3_DefaultCtorAllZero ==
    last.op = "ctor_default" =>
        /\ IsVectorEngine(a) =>
              /\ Slots(a) = 0 .. targs.N - 1
              /\ \A i \in 0 .. targs.N - 1 : vector_at(a, i) = 0
        /\ IsMatrixEngine(a) =>
              /\ Slots(a) = 0 .. targs.R * targs.C - 1
              /\ \A i \in 0 .. targs.R - 1 : \A j \in 0 .. targs.C - 1 : matrix_at(a, i, j) = 0

\* C3 witness: a default-constructed vector engine of more than one element.
C3_Witness == last.op = "ctor_default" /\ IsVectorEngine(a) /\ targs.N > 1

\* C4: an engine of n slots constructed from a list of length K holds
\* list[i] at every i < min(n, K) and zero at every min(n, K) <= i < n, and
\* nothing was written outside the n slots.
C4_ListCtorCopiesMin ==
    last.op = "ctor_list" =>
        LET n == IF IsVectorEngine(a) THEN targs.N ELSE targs.R * targs.C
            K == Len(last.list)
            m == IF n < K THEN n ELSE K
        IN  /\ Slots(a) = 0 .. n - 1
            /\ \A i \in 0 .. m - 1 : a.ma_elems[i] = last.list[i + 1]
            /\ \A i \in m .. n - 1 : a.ma_elems[i] = 0

\* C4 witness: a list longer than the engine, whose surplus element is not zero.
C4_Witness ==
    /\ last.op = "ctor_list"
    /\ Len(last.list) > Cardinality(Slots(a))
    /\ last.list[Len(last.list)] # 0
    /\ \E i \in Slots(a) : a.ma_elems[i] # 0

\* C6: size and capacity equal each other and the template arguments in every
\* state: after construction and after any writes, swaps and assignments.
C6_SizeCapacityConstant ==
    /\ IsVectorEngine(a) =>
          /\ targs.N >= 1
          /\ vector_size(a) = targs.N
          /\ vector_capacity(a) = targs.N
          /\ vector_elements(a) = targs.N
    /\ IsMatrixEngine(a) =>
          /\ targs.R >= 1 /\ targs.C >= 1
          /\ size(a) = <<targs.R, targs.C>>
          /\ capacity(a) = <<targs.R, targs.C>>
          /\ rows(a) = targs.R /\ columns(a) = targs.C
          /\ row_capacity(a) = targs.R /\ column_capacity(a) = targs.C

\* C6 witness: a non-square matrix engine after a failed assignment.
C6_Witness ==
    /\ last.op = "assign" /\ last.threw
    /\ IsMatrixEngine(a) /\ a.R # a.C

\* C7: swap of two distinct engines exchanges all elements; swap of an engine
\* with itself leaves it unchanged.
C7_SwapExchangesAll ==
    /\ last.op = "swap" =>
          /\ a = last.post["a"]
          /\ Slots(a) = Slots(last.pre["a"])
          /\ \A k \in Slots(a) :
                /\ last.post["a"].ma_elems[k] = last.pre["b"].ma_elems[k]
                /\ last.post["b"].ma_elems[k] = last.pre["a"].ma_elems[k]
    /\ last.op = "swap_self" => a = last.pre["a"]

\* C7 witness: a swap of two matrix engines that differ in their last element.
C7_Witness ==
    /\ last.op = "swap" /\ IsMatrixEngine(a) /\ a.R > 1 /\ a.C > 1
    /\ last.pre["a"].ma_elems[a.R * a.C - 1] # last.pre["b"].ma_elems[a.R * a.C - 1]

\* C8: swap_rows(i1, i2) exchanges rows i1 and i2 and leaves the other rows
\* unchanged; swap_columns(j1, j2) does so for columns; swap_elements(i, j)
\* exchanges elements i and j of a vector and leaves the others unchanged; with
\* equal indices each changes nothing.
C8_SwapRowsColumnsElements ==
    LET old == last.pre["a"]
    IN  /\ last.op = "swap_rows" =>
              /\ Slots(a) = Slots(old)
              /\ \A i \in RowsOf(a) : \A j \in ColsOf(a) :
                    matrix_at(a, i, j) =
                        IF i = last.i THEN matrix_at(old, last.j, j)
                        ELSE IF i = last.j THEN matrix_at(old, last.i, j)
                        ELSE matrix_at(old, i, j)
              /\ last.i = last.j => a = old
        /\ last.op = "swap_columns" =>
              /\ Slots(a) = Slots(old)
              /\ \A i \in RowsOf(a) : \A j \in ColsOf(a) :
                    matrix_at(a, i, j) =
                        IF j = last.i THEN matrix_at(old, i, last.j)
                        ELSE IF j = last.j THEN matrix_at(old, i, last.i)
                        ELSE matrix_at(old, i, j)
              /\ last.i = last.j => a = old
        /\ last.op = "swap_elements" =>
              /\ Slots(a) = Slots(old)
              /\ \A k \in 0 .. targs.N - 1 :
                    vector_at(a, k) =
                        IF k = last.i THEN vector_at(old, last.j)
                        ELSE IF k = last.j THEN vector_at(old, last.i)
                        ELSE vector_at(old, k)
              /\ last.i = last.j => a = old

\* C8 witness: a swap of two different rows that changed the engine, a third
\* row being there to stay as it was.
C8_Witness ==
    /\ last.op = "swap_rows" /\ last.i # last.j
    /\ a.R >= 3
    /\ a # last.pre["a"]

\* C5: with exactly one of T1, T2 non-void the chooser resolves to that type
\* (T1 if T2 is void, T2 if T1 is void); it resolves through the default
\* DEF exactly when both are void.
C5_TraitsPrecedence ==
    chooser.stage = "resolved" =>
        /\ (chooser.T1 # Void /\ chooser.T2 = Void) =>
              chooser.complete /\ chooser.traits_type = chooser.T1
        /\ (chooser.T1 = Void /\ chooser.T2 # Void) =>
              chooser.complete /\ chooser.traits_type = chooser.T2
        /\ (chooser.T1 = Void /\ chooser.T2 = Void) =>
              chooser.complete /\ chooser.traits_type = chooser.Dflt
        /\ (chooser.complete /\ chooser.via = "void_void_DEF") =>
              (chooser.T1 = Void /\ chooser.T2 = Void)

\* C5 witness: T1 supplied, T2 void, and a default that is another type.
C5_Witness ==
    /\ chooser.stage = "resolved"
    /\ chooser.T1 # Void /\ chooser.T2 = Void
    /\ chooser.Dflt # chooser.T1 /\ chooser.Dflt # Void
    /\ chooser.traits_type = chooser.T1

SizeChangers == {"ctor_sized", "reserve", "resize", "resize_cap"}

\* C9: reserve, resize and the sized constructors of the facade are there
\* exactly when the engine is resizable, the predicate result_requires_resize
\* reports; on a facade over a fixed-size engine no operation changes rows(),
\* columns() or capacity().
C9_ResizeOnlyWhenResizable ==
    /\ (ENABLED FacadeReserve)   <=> result_requires_resize(a)
    /\ (ENABLED FacadeResize)    <=> result_requires_resize(a)
    /\ (ENABLED FacadeResizeCap) <=> result_requires_resize(a)
    /\ last.op \in SizeChangers => result_requires_resize(last.pre["a"])
    /\ ~result_requires_resize(a) =>
          /\ facade_size(a) = <<targs.R, targs.C>>
          /\ facade_capacity(a) = <<targs.R, targs.C>>
          /\ facade_size(a) = facade_size(last.pre["a"])
          /\ facade_capacity(a) = facade_capacity(last.pre["a"])

\* C9 witness: a facade over a fixed-size engine after an operation that
\* changed its elements, and none of the resizing operations enabled.
C9_Witness ==
    /\ a.cls = "fs_matrix_engine"
    /\ last.op = "swap_rows" /\ a # last.pre["a"]
    /\ ~ENABLED FacadeResize

\* C10: the transpose view of A has rows() = A.columns(), columns() =
\* A.rows() and view(i, j) = A(j, i) for all i < A.columns(), j < A.rows(), in
\* every state after it was taken: a later write to A(j, i) is read through
\* the view at (i, j).
C10_TransposeView ==
    view.cls = "matrix_transpose_engine" =>
        /\ tr_rows(view) = targs.C
        /\ tr_columns(view) = targs.R
        /\ \A i \in 0 .. targs.C - 1 : \A j \in 0 .. targs.R - 1 :
              tr_at(view, i, j) = a.ma_elems[j * targs.C + i]
        /\ last.op = "write" => tr_at(view, last.j, last.i) = last.v

\* C10 witness: a write to an off-diagonal element of A, after the view was
\* taken, that changed A.
C10_Witness ==
    /\ view.cls = "matrix_transpose_engine"
    /\ last.op = "write" /\ last.i # last.j
    /\ a # last.pre["a"]

Resizers == {"ctor_sized", "resize", "resize_cap"}

\* C11: on a dynamic engine 0 <= size <= capacity in every reachable state,
\* that is after construction with a size (and a capacity) and after every
\* sequence of reserve and resize; reserve(c) with c >= capacity() leaves
\* size() as it was and ends with capacity() >= c; resize(n) ends with
\* size() = n.
C11_DynamicSizeWithinCapacity ==
    result_requires_resize(a) =>
        /\ \A k \in 1 .. 2 :
              /\ 0 <= facade_size(a)[k]
              /\ facade_size(a)[k] <= facade_capacity(a)[k]
        /\ ( /\ last.op = "reserve"
             /\ \A k \in 1 .. 2 : last.list[k] >= facade_capacity(last.pre["a"])[k] )
           => /\ facade_size(a) = facade_size(last.pre["a"])
              /\ \A k \in 1 .. 2 : facade_capacity(a)[k] >= last.list[k]
        /\ last.op \in Resizers => facade_size(a) = <<last.i, last.j>>

\* C11 witness: a dynamic engine holding elements, with room to spare, right
\* after a reserve that asked for more than the capacity it had.
C11_Witness ==
    /\ result_requires_resize(a)
    /\ last.op = "reserve"
    /\ \A k \in 1 .. 2 : last.list[k] > facade_capacity(last.pre["a"])[k]
    /\ \A k \in 1 .. 2 : 0 < facade_size(a)[k] /\ facade_size(a)[k] < facade_capacity(a)[k]

\* C12: a fixed-size R x C matrix engine constructed from a sequence of
\* length K is filled in row-major order: for every k < min(R*C, K) the
\* element read back by operator()(k div C, k mod C) is sequence element k.
C12_ListCtorRowMajor ==
    (last.op = "ctor_list" /\ IsMatrixEngine(a)) =>
        \A k \in 0 .. min(targs.R * targs.C, Len(last.list)) - 1 :
            matrix_at(a, k \div targs.C, k % targs.C) = last.list[k + 1]

\* C12 witness: a matrix engine of at least two rows and two columns built
\* from a sequence that fills it, with (0,1) and (1,0) holding different
\* values.
C12_Witness ==
    /\ last.op = "ctor_list" /\ IsMatrixEngine(a)
    /\ targs.R >= 2 /\ targs.C >= 2
    /\ Len(last.list) >= targs.R * targs.C
    /\ matrix_at(a, 0, 1) = last.list[2]
    /\ matrix_at(a, 0, 1) # matrix_at(a, 1, 0)

\* C13: with T1 and T2 both non-void, non_void_traits_chooser<T1, T2, DEF>
\* defines no result: naming its traits_type is rejected, and neither T1, T2
\* nor DEF is selected.
C13_BothNonVoidRejected ==
    (chooser.stage = "resolved" /\ chooser.T1 # Void /\ chooser.T2 # Void) =>
        /\ ~chooser.complete
        /\ chooser.via = "primary"
        /\ chooser.traits_type \notin {chooser.T1, chooser.T2, chooser.Dflt} \ {Void}

\* C13 witness: two different non-void operand traits and a third, non-void
\* default, resolved without a result.
C13_Witness ==
    /\ chooser.stage = "resolved"
    /\ chooser.T1 # Void /\ chooser.T2 # Void /\ chooser.Dflt # Void
    /\ Cardinality({chooser.T1, chooser.T2, chooser.Dflt}) = 3
    /\ ~chooser.complete

\* C14: a write through the mutable operator()(i, j) of a matrix engine, or
\* operator()(i) of a vector engine, with in-range indices changes that one
\* element and no other: the written index reads the written value, every
\* other in-range index reads what it read before, and no slot outside the
\* engine's R*C (N) slots is touched.
C14_WriteChangesOneElement ==
    last.op = "write" =>
        LET pre == last.pre["a"]
        IN  /\ IsMatrixEngine(a) =>
                  /\ matrix_at(a, last.i, last.j) = last.v
                  /\ \A i \in RowsOf(a) : \A j \in ColsOf(a) :
                        <<i, j>> # <<last.i, last.j>> =>
                            matrix_at(a, i, j) = matrix_at(pre, i, j)
                  /\ Slots(a) = 0 .. targs.R * targs.C - 1
            /\ IsVectorEngine(a) =>
                  /\ vector_at(a, last.i) = last.v
                  /\ \A i \in 0 .. targs.N - 1 :
                        i # last.i => vector_at(a, i) = vector_at(pre, i)
                  /\ Slots(a) = 0 .. targs.N - 1

\* C14 witness: a write to the last element of a matrix engine of two rows
\* or more that changed its value, with another element holding the other
\* value.
C14_Witness ==
    /\ last.op = "write" /\ IsMatrixEngine(a)
    /\ targs.R >= 2
    /\ last.i = targs.R - 1 /\ last.j = targs.C - 1
    /\ matrix_at(last.pre["a"], last.i, last.j) # last.v
    /\ matrix_at(a, 0, 0) # last.v

Swaps == {"swap", "swap_self", "swap_elements", "swap_rows", "swap_columns"}

\* The multiset of the values an engine holds.
ValueBag(e) ==
    IF e = NoEngine THEN EmptyBag
    ELSE [v \in {e.ma_elems[s] : s \in Slots(e)} |->
             Cardinality({s \in Slots(e) : e.ma_elems[s] = v})]

\* The multiset of the values held by the engines an operation ran on.
HeldBag(objs) == ValueBag(objs["a"]) (+) ValueBag(objs["b"])

\* C15: swap_elements, swap_rows, swap_columns and the whole-engine swap,
\* with in-range indices, only permute: after each of them, at any place in
\* a sequence of operations, the engines involved hold the multiset of
\* values they held before it (hence also after any sequence of them), in
\* the same slots, none duplicated and none lost.
C15_SwapsPreserveMultiset ==
    last.op \in Swaps =>
        /\ HeldBag(last.post) = HeldBag(last.pre)
        /\ a = last.post["a"]
        /\ Slots(a) = Slots(last.pre["a"])
        /\ last.op # "swap" => ValueBag(a) = ValueBag(last.pre["a"])

\* C15 witness: a swap of two different columns of a matrix engine of two
\* rows or more that changed the engine, which holds both values.
C15_Witness ==
    /\ last.op = "swap_columns" /\ last.i # last.j
    /\ a.R >= 2
    /\ a # last.pre["a"]
    /\ BagToSet(ValueBag(a)) = Values

====
